---- MODULE Spec2Model ----
(***************************************************************************)
(* use-firestore-collections: the per-collection subscription registry of  *)
(* useFirestoreCollections (revision 1.0.8, src/rollup.config.js 34-193;   *)
(* src/src/index.js is the same lifecycle without context resolution and   *)
(* without the try/catch around collection()/onSnapshot()).                *)
(*                                                                         *)
(* Program state: the module-level collectionsState map, and for every     *)
(* record the variables its closure captured (db, auth, unsubscribeSnapshot)*)
(* Environment state: getApps(), the listeners registered with Firebase    *)
(* Auth and Firestore, and the events those two streams deliver.           *)
(***************************************************************************)
EXTENDS Naturals, Sequences, FiniteSets

VARIABLES
    apps,                \* getApps(): the initialized Firebase apps, in order
    collectionsState,    \* name -> NoRecord or [data, loading, error]
    unsubscribeSnapshot, \* name -> 0 (null) or the handle of the record's data listener
    captured,            \* name -> [db, auth] captured by the record's closure
    authListeners,       \* name -> number of onAuthStateChanged listeners of that name
    snapshotListeners,   \* name -> for every onSnapshot listener opened, how often
                         \*         its unsubscribe function was invoked
    requested,           \* the names subscribeToCollection has returned for
    lastUser,            \* name -> what the last auth callback of the record reported
    lastOpen,            \* name -> how the record's latest attempt to open a data
                         \*         stream ended: "none", "ok" or "threw"
    lastStream,          \* name -> the record's most recent data-stream operation:
                         \*         "none", "opened", "threw" (the open failed),
                         \*         "snapshot", "failed" or "cancelled"
    last                 \* the operation that ran last: [op, name, tag, arg, threw]

vars == <<apps, collectionsState, unsubscribeSnapshot, captured, authListeners,
          snapshotListeners, requested, lastUser, lastOpen, lastStream, last>>

-----------------------------------------------------------------------------
(* Bounds and input domains *)

\* data listeners opened per collection name
MaxOpens == 2
\* documents in one snapshot
MaxDocs == 2
\* length of the collectionNames argument
MaxNames == 2

Names == {"users", "posts"}

Null == "null"
NoInstance == <<>>
\* collectionsState[name] of a name never subscribed (undefined)
NoRecord == [defined |-> FALSE, data |-> <<>>, loading |-> FALSE, error |-> Null]
NoBackendInitialized == "No Firebase App initialized"
AuthenticationRequired == "User not authenticated"
StreamErrors == {"permission-denied"}

\* (firebaseAppInstance, firestoreInstance, authInstance) argument triples
ContextArgs ==
    { <<Null, NoInstance, NoInstance>>,
      <<"appA", <<"firestore", "own">>, <<"auth", "own">> >> }

\* documents a snapshot can hold: an identifier and a field map
DocSet ==
    { [id |-> "u1", data |-> [name |-> "Ann"]],
      [id |-> "u2", data |-> [id |-> "zz"]] }

RECURSIVE SeqsUpTo(_, _)
SeqsUpTo(S, n) ==
    IF n = 0 THEN {<<>>}
    ELSE LET shorter == SeqsUpTo(S, n - 1)
         IN  shorter \cup {Append(s, x) : s \in {t \in shorter : Len(t) = n - 1}, x \in S}

NameLists == SeqsUpTo(Names, MaxNames)
\* a snapshot lists every document of the collection once
Snapshots ==
    {s \in SeqsUpTo(DocSet, MaxDocs) :
        \A i, j \in 1..Len(s) : s[i].id = s[j].id => i = j}

Range(s) == {s[i] : i \in 1..Len(s)}

-----------------------------------------------------------------------------
(* External collaborators *)

getFirestore(app) == <<"firestore", app>>
getAuth(app) == <<"auth", app>>

\* variant: the identifier is spread last, ({ ...doc.data(), id: doc.id })
MapDoc_IdLast(doc) ==
    [f \in {"id"} \cup DOMAIN doc.data |->
        IF f = "id" THEN doc.id ELSE doc.data[f]]

\* snapshot.docs.map(doc => ({ id: doc.id, ...doc.data() }))
MapDoc(doc) ==
    [f \in {"id"} \cup DOMAIN doc.data |->
        IF f \in DOMAIN doc.data THEN doc.data[f] ELSE doc.id]

MapDocs(docs) == [i \in 1..Len(docs) |-> MapDoc(docs[i])]

\* the data listeners of a name whose unsubscribe function was never invoked
ActiveListeners(name) ==
    {k \in 1..Len(snapshotListeners[name]) : snapshotListeners[name][k] = 0}

-----------------------------------------------------------------------------
(* ensureFirebaseInitialized: the app passed in, else the first initialized *)
(* app; throws when there is neither.                                       *)

ensureFirebaseInitialized(firebaseAppInstance, getApps) ==
    LET app == IF firebaseAppInstance # Null THEN firebaseAppInstance
               ELSE IF Len(getApps) # 0 THEN getApps[1] ELSE Null
    IN  IF app = Null THEN [threw |-> NoBackendInitialized, app |-> Null]
        ELSE [threw |-> Null, app |-> app]

\* db = firestoreInstance || getFirestore(app); auth = authInstance || getAuth(app)
ResolveContexts(app, firestoreInstance, authInstance) ==
    [db |-> IF firestoreInstance # NoInstance THEN firestoreInstance ELSE getFirestore(app),
     auth |-> IF authInstance # NoInstance THEN authInstance ELSE getAuth(app)]

\* mutant: the loading cell starts as ref(false)
NewRecord_NotLoading ==
    [defined |-> TRUE, data |-> <<>>, loading |-> FALSE, error |-> Null]

\* the body of the if of subscribeToCollection: resolve the contexts, create
\* the cells, register the auth listener, store the record
NewRecord == [defined |-> TRUE, data |-> <<>>, loading |-> TRUE, error |-> Null]

Attach(st, name, contexts) ==
    [st EXCEPT !.collectionsState[name] = NewRecord,
               !.unsubscribeSnapshot[name] = 0,
               !.captured[name] = contexts,
               !.authListeners[name] = @ + 1]

CreateSubscription(st, name, firebaseAppInstance, firestoreInstance, authInstance) ==
    LET r == ensureFirebaseInitialized(firebaseAppInstance, st.apps)
    IN  IF r.threw # Null THEN [st EXCEPT !.threw = r.threw]
        ELSE Attach(st, name, ResolveContexts(r.app, firestoreInstance, authInstance))

\* mutant: no `if (!collectionsState[name])`: every request subscribes again
subscribeToCollection_NoGuard(st, name, firebaseAppInstance, firestoreInstance, authInstance) ==
    CreateSubscription(st, name, firebaseAppInstance, firestoreInstance, authInstance)

\* mutant: the auth listener is attached and the record stored before the
\* application context is checked
subscribeToCollection_CheckAfterAttach(st, name, firebaseAppInstance, firestoreInstance, authInstance) ==
    IF st.collectionsState[name] # NoRecord THEN st
    ELSE LET r == ensureFirebaseInitialized(firebaseAppInstance, st.apps)
             at == Attach(st, name,
                          ResolveContexts(r.app, firestoreInstance, authInstance))
         IN  [at EXCEPT !.threw = r.threw]

\* mutant: a request that brings other contexts than the record's subscribes again
subscribeToCollection_ResubscribeOnNewContext(st, name, firebaseAppInstance, firestoreInstance, authInstance) ==
    LET r == ensureFirebaseInitialized(firebaseAppInstance, st.apps)
    IN  IF /\ st.collectionsState[name] # NoRecord
           /\ \/ r.threw # Null
              \/ st.captured[name] =
                     ResolveContexts(r.app, firestoreInstance, authInstance)
        THEN st
        ELSE CreateSubscription(st, name, firebaseAppInstance, firestoreInstance,
                                authInstance)

(* subscribeToCollection on the registry state st; st.threw records an    *)
(* exception that left the function.                                       *)
subscribeToCollection(st, name, firebaseAppInstance, firestoreInstance, authInstance) ==
    IF st.collectionsState[name] # NoRecord THEN st
    ELSE CreateSubscription(st, name, firebaseAppInstance, firestoreInstance,
                            authInstance)

\* collectionNames.forEach(name => subscribeToCollection(name, ...)): an
\* exception ends the loop.
RECURSIVE forEachSubscribe(_, _, _, _, _, _)
forEachSubscribe(st, collectionNames, i, app, fs, au) ==
    IF i > Len(collectionNames) \/ st.threw # Null THEN st
    ELSE LET after == subscribeToCollection(st, collectionNames[i], app, fs, au)
         IN  forEachSubscribe(
                 IF after.threw # Null THEN after
                 ELSE [after EXCEPT !.requested = @ \cup {collectionNames[i]}],
                 collectionNames, i + 1, app, fs, au)

\* The cells (refs) of the record of `name`.  ref() makes a new object each
\* time the body of the if of subscribeToCollection runs for the name: a cell
\* is named by its record's name, its field and that ordinal.
RecordCells(st, name) ==
    [data |-> <<name, "data", st.authListeners[name]>>,
     loading |-> <<name, "loading", st.authListeners[name]>>,
     error |-> <<name, "error", st.authListeners[name]>>]

\* mutant: the result holds new refs initialized from the record's cells
ResultOf_Copies(st, collectionNames) ==
    [n \in Range(collectionNames) |->
        [data |-> <<n, "data", 0>>, loading |-> <<n, "loading", 0>>,
         error |-> <<n, "error", 0>>]]

\* result[name] = { data: collectionsState[name].data, loading: ..., error: ... }
ResultOf(st, collectionNames) ==
    [n \in Range(collectionNames) |-> RecordCells(st, n)]

-----------------------------------------------------------------------------
Init ==
    /\ apps \in {<<>>, <<"appDefault">>}
    /\ collectionsState = [n \in Names |-> NoRecord]
    /\ unsubscribeSnapshot = [n \in Names |-> 0]
    /\ captured = [n \in Names |-> [db |-> NoInstance, auth |-> NoInstance]]
    /\ authListeners = [n \in Names |-> 0]
    /\ snapshotListeners = [n \in Names |-> <<>>]
    /\ requested = {}
    /\ lastUser = [n \in Names |-> "none"]
    /\ lastOpen = [n \in Names |-> "none"]
    /\ lastStream = [n \in Names |-> "none"]
    /\ last = [op |-> "init", name |-> Null, tag |-> {}, arg |-> <<>>, threw |-> Null]

\* what the last call was given, seen from the state it was made in
UseTags(collectionNames, firebaseAppInstance, firestoreInstance, authInstance) ==
    LET r == ensureFirebaseInitialized(firebaseAppInstance, apps)
        named == Range(collectionNames)
        reused == {n \in named : collectionsState[n] # NoRecord}
    IN  (IF reused # {} THEN {"reused"} ELSE {})
        \cup (IF named \ reused # {} THEN {"fresh"} ELSE {})
        \cup (IF \E i, j \in 1..Len(collectionNames) :
                    i # j /\ collectionNames[i] = collectionNames[j]
              THEN {"repeated"} ELSE {})
        \cup (IF firebaseAppInstance = Null /\ Len(apps) = 0
              THEN {"noContext"} ELSE {})
        \cup (IF \E n \in reused :
                    captured[n] # ResolveContexts(r.app, firestoreInstance, authInstance)
              THEN {"otherContext"} ELSE {})

\* the registry after the forEach of a call made in the current state
Subscribed(collectionNames, firebaseAppInstance, firestoreInstance, authInstance) ==
    forEachSubscribe([apps |-> apps, collectionsState |-> collectionsState,
                      unsubscribeSnapshot |-> unsubscribeSnapshot,
                      captured |-> captured, authListeners |-> authListeners,
                      requested |-> requested, threw |-> Null],
                     collectionNames, 1, firebaseAppInstance, firestoreInstance,
                     authInstance)

\* what a call made in the current state returns (when it does not throw)
Returned(collectionNames, firebaseAppInstance, firestoreInstance, authInstance) ==
    ResultOf(Subscribed(collectionNames, firebaseAppInstance, firestoreInstance,
                        authInstance),
             collectionNames)

useFirestoreCollections(collectionNames, firebaseAppInstance, firestoreInstance, authInstance) ==
    LET st == Subscribed(collectionNames, firebaseAppInstance, firestoreInstance,
                         authInstance)
    IN  /\ collectionsState' = st.collectionsState
        /\ unsubscribeSnapshot' = st.unsubscribeSnapshot
        /\ captured' = st.captured
        /\ authListeners' = st.authListeners
        /\ requested' = st.requested
        /\ last' = [op |-> "use", name |-> Null,
                    tag |-> UseTags(collectionNames, firebaseAppInstance,
                                    firestoreInstance, authInstance),
                    arg |-> <<>>, threw |-> st.threw]
        /\ UNCHANGED <<apps, snapshotListeners, lastUser, lastOpen, lastStream>>

-----------------------------------------------------------------------------
(* The onAuthStateChanged callback of the record of `name`.                *)

\* mutant: loading.value = true is hoisted out of the !unsubscribeSnapshot test
SignedIn_LoadingOutsideGuard(name, openFails) ==
    IF unsubscribeSnapshot[name] = 0
    THEN /\ Len(snapshotListeners[name]) < MaxOpens
         /\ collectionsState' = [collectionsState EXCEPT ![name].loading = TRUE]
         /\ IF openFails
            THEN /\ UNCHANGED <<unsubscribeSnapshot, snapshotListeners>>
                 /\ lastOpen' = [lastOpen EXCEPT ![name] = "threw"]
                 /\ lastStream' = [lastStream EXCEPT ![name] = "threw"]
            ELSE /\ snapshotListeners' =
                        [snapshotListeners EXCEPT ![name] = Append(@, 0)]
                 /\ unsubscribeSnapshot' =
                        [unsubscribeSnapshot EXCEPT
                            ![name] = Len(snapshotListeners[name]) + 1]
                 /\ lastOpen' = [lastOpen EXCEPT ![name] = "ok"]
                 /\ lastStream' = [lastStream EXCEPT ![name] = "opened"]
         /\ last' = [op |-> "auth", name |-> name,
                     tag |-> {"in", IF openFails THEN "openFailed" ELSE "opened"}
                             \cup (IF lastUser[name] = "out" THEN {"afterSignOut"}
                                   ELSE {}),
                     arg |-> <<>>, threw |-> Null]
    ELSE /\ openFails = FALSE
         /\ collectionsState' = [collectionsState EXCEPT ![name].loading = TRUE]
         /\ UNCHANGED <<unsubscribeSnapshot, snapshotListeners,
                        lastOpen, lastStream>>
         /\ last' = [op |-> "auth", name |-> name,
                     tag |-> {"in", "alreadyActive"}
                             \cup (IF lastUser[name] = "out" THEN {"afterSignOut"}
                                   ELSE {}),
                     arg |-> <<>>, threw |-> Null]

\* mutant: the signed-in branch resets error.value before opening the listener
SignedIn_ClearsError(name, openFails) ==
    IF unsubscribeSnapshot[name] = 0
    THEN /\ Len(snapshotListeners[name]) < MaxOpens
         /\ collectionsState' = [collectionsState EXCEPT ![name].loading = TRUE,
                                                        ![name].error = Null]
         /\ IF openFails
            THEN /\ UNCHANGED <<unsubscribeSnapshot, snapshotListeners>>
                 /\ lastOpen' = [lastOpen EXCEPT ![name] = "threw"]
                 /\ lastStream' = [lastStream EXCEPT ![name] = "threw"]
            ELSE /\ snapshotListeners' =
                        [snapshotListeners EXCEPT ![name] = Append(@, 0)]
                 /\ unsubscribeSnapshot' =
                        [unsubscribeSnapshot EXCEPT
                            ![name] = Len(snapshotListeners[name]) + 1]
                 /\ lastOpen' = [lastOpen EXCEPT ![name] = "ok"]
                 /\ lastStream' = [lastStream EXCEPT ![name] = "opened"]
         /\ last' = [op |-> "auth", name |-> name,
                     tag |-> {"in", IF openFails THEN "openFailed" ELSE "opened"}
                             \cup (IF lastUser[name] = "out" THEN {"afterSignOut"}
                                   ELSE {}),
                     arg |-> <<>>, threw |-> Null]
    ELSE /\ openFails = FALSE
         /\ UNCHANGED <<collectionsState, unsubscribeSnapshot, snapshotListeners,
                        lastOpen, lastStream>>
         /\ last' = [op |-> "auth", name |-> name,
                     tag |-> {"in", "alreadyActive"}
                             \cup (IF lastUser[name] = "out" THEN {"afterSignOut"}
                                   ELSE {}),
                     arg |-> <<>>, threw |-> Null]

\* if (user) { if (!unsubscribeSnapshot) { ... } }.  openFails: collection(db,
\* name) or onSnapshot(...) throws synchronously; the catch logs it.
SignedIn(name, openFails) ==
    IF unsubscribeSnapshot[name] = 0
    THEN /\ Len(snapshotListeners[name]) < MaxOpens
         /\ collectionsState' = [collectionsState EXCEPT ![name].loading = TRUE]
         /\ IF openFails
            THEN /\ UNCHANGED <<unsubscribeSnapshot, snapshotListeners>>
                 /\ lastOpen' = [lastOpen EXCEPT ![name] = "threw"]
                 /\ lastStream' = [lastStream EXCEPT ![name] = "threw"]
            ELSE /\ snapshotListeners' =
                        [snapshotListeners EXCEPT ![name] = Append(@, 0)]
                 /\ unsubscribeSnapshot' =
                        [unsubscribeSnapshot EXCEPT
                            ![name] = Len(snapshotListeners[name]) + 1]
                 /\ lastOpen' = [lastOpen EXCEPT ![name] = "ok"]
                 /\ lastStream' = [lastStream EXCEPT ![name] = "opened"]
         /\ last' = [op |-> "auth", name |-> name,
                     tag |-> {"in", IF openFails THEN "openFailed" ELSE "opened"}
                             \cup (IF lastUser[name] = "out" THEN {"afterSignOut"}
                                   ELSE {}),
                     arg |-> <<>>, threw |-> Null]
    ELSE /\ openFails = FALSE
         /\ UNCHANGED <<collectionsState, unsubscribeSnapshot, snapshotListeners,
                        lastOpen, lastStream>>
         /\ last' = [op |-> "auth", name |-> name,
                     tag |-> {"in", "alreadyActive"}
                             \cup (IF lastUser[name] = "out" THEN {"afterSignOut"}
                                   ELSE {}),
                     arg |-> <<>>, threw |-> Null]

\* mutant: the sign-out branch forgets the data listener altogether
SignedOut_KeepsListener(name) ==
    /\ UNCHANGED <<unsubscribeSnapshot, snapshotListeners, lastOpen, lastStream>>
    /\ collectionsState' =
           [collectionsState EXCEPT ![name].data = <<>>,
                                    ![name].error = AuthenticationRequired,
                                    ![name].loading = FALSE]
    /\ last' = [op |-> "auth", name |-> name,
                tag |-> {"out"} \cup (IF unsubscribeSnapshot[name] # 0
                                      THEN {"cancelled"} ELSE {})
                                \cup (IF lastUser[name] = "out"
                                      THEN {"afterSignOut"} ELSE {}),
                arg |-> <<>>, threw |-> Null]

\* mutant: the sign-out branch drops the handle without calling it
SignedOut_NoCancel(name) ==
    /\ unsubscribeSnapshot' = [unsubscribeSnapshot EXCEPT ![name] = 0]
    /\ UNCHANGED <<snapshotListeners, lastOpen, lastStream>>
    /\ collectionsState' =
           [collectionsState EXCEPT ![name].data = <<>>,
                                    ![name].error = AuthenticationRequired,
                                    ![name].loading = FALSE]
    /\ last' = [op |-> "auth", name |-> name,
                tag |-> {"out"} \cup (IF unsubscribeSnapshot[name] # 0
                                      THEN {"cancelled"} ELSE {})
                                \cup (IF lastUser[name] = "out"
                                      THEN {"afterSignOut"} ELSE {}),
                arg |-> <<>>, threw |-> Null]

\* mutant: the sign-out branch calls the handle but does not reset it to null
SignedOut_StaleHandle(name) ==
    /\ IF unsubscribeSnapshot[name] # 0
       THEN /\ snapshotListeners' =
                   [snapshotListeners EXCEPT
                       ![name][unsubscribeSnapshot[name]] = @ + 1]
            /\ lastStream' = [lastStream EXCEPT ![name] = "cancelled"]
       ELSE UNCHANGED <<snapshotListeners, lastStream>>
    /\ UNCHANGED <<unsubscribeSnapshot, lastOpen>>
    /\ collectionsState' =
           [collectionsState EXCEPT ![name].data = <<>>,
                                    ![name].error = AuthenticationRequired,
                                    ![name].loading = FALSE]
    /\ last' = [op |-> "auth", name |-> name,
                tag |-> {"out"} \cup (IF unsubscribeSnapshot[name] # 0
                                      THEN {"cancelled"} ELSE {})
                                \cup (IF lastUser[name] = "out"
                                      THEN {"afterSignOut"} ELSE {}),
                arg |-> <<>>, threw |-> Null]

\* mutant: the sign-out branch does not clear data
SignedOut_KeepsData(name) ==
    /\ IF unsubscribeSnapshot[name] # 0
       THEN /\ snapshotListeners' =
                   [snapshotListeners EXCEPT
                       ![name][unsubscribeSnapshot[name]] = @ + 1]
            /\ unsubscribeSnapshot' = [unsubscribeSnapshot EXCEPT ![name] = 0]
            /\ lastStream' = [lastStream EXCEPT ![name] = "cancelled"]
       ELSE UNCHANGED <<unsubscribeSnapshot, snapshotListeners, lastStream>>
    /\ UNCHANGED lastOpen
    /\ collectionsState' =
           [collectionsState EXCEPT ![name].error = AuthenticationRequired,
                                    ![name].loading = FALSE]
    /\ last' = [op |-> "auth", name |-> name,
                tag |-> {"out"} \cup (IF unsubscribeSnapshot[name] # 0
                                      THEN {"cancelled"} ELSE {})
                                \cup (IF lastUser[name] = "out"
                                      THEN {"afterSignOut"} ELSE {}),
                arg |-> <<>>, threw |-> Null]

\* mutant: the handle is called without the `if (unsubscribeSnapshot)` test, so
\* a callback that finds it null throws before the cells are written
SignedOut_CancelUnguarded(name) ==
    IF unsubscribeSnapshot[name] # 0
    THEN /\ snapshotListeners' =
                [snapshotListeners EXCEPT
                    ![name][unsubscribeSnapshot[name]] = @ + 1]
         /\ unsubscribeSnapshot' = [unsubscribeSnapshot EXCEPT ![name] = 0]
         /\ lastStream' = [lastStream EXCEPT ![name] = "cancelled"]
         /\ UNCHANGED lastOpen
         /\ collectionsState' =
                [collectionsState EXCEPT ![name].data = <<>>,
                                         ![name].error = AuthenticationRequired,
                                         ![name].loading = FALSE]
         /\ last' = [op |-> "auth", name |-> name,
                     tag |-> {"out", "cancelled"}
                             \cup (IF lastUser[name] = "out"
                                   THEN {"afterSignOut"} ELSE {}),
                     arg |-> <<>>, threw |-> Null]
    ELSE /\ UNCHANGED <<unsubscribeSnapshot, snapshotListeners, lastStream,
                        lastOpen, collectionsState>>
         /\ last' = [op |-> "auth", name |-> name,
                     tag |-> {"out"}
                             \cup (IF lastUser[name] = "out"
                                   THEN {"afterSignOut"} ELSE {}),
                     arg |-> <<>>, threw |-> "TypeError"]

\* else { if (unsubscribeSnapshot) { unsubscribeSnapshot(); unsubscribeSnapshot
\* = null }  data.value = []; error.value = new Error(...); loading.value = false }
SignedOut(name) ==
    /\ IF unsubscribeSnapshot[name] # 0
       THEN /\ snapshotListeners' =
                   [snapshotListeners EXCEPT
                       ![name][unsubscribeSnapshot[name]] = @ + 1]
            /\ unsubscribeSnapshot' = [unsubscribeSnapshot EXCEPT ![name] = 0]
            /\ lastStream' = [lastStream EXCEPT ![name] = "cancelled"]
       ELSE UNCHANGED <<unsubscribeSnapshot, snapshotListeners, lastStream>>
    /\ UNCHANGED lastOpen
    /\ collectionsState' =
           [collectionsState EXCEPT ![name].data = <<>>,
                                    ![name].error = AuthenticationRequired,
                                    ![name].loading = FALSE]
    /\ last' = [op |-> "auth", name |-> name,
                tag |-> {"out"} \cup (IF unsubscribeSnapshot[name] # 0
                                      THEN {"cancelled"} ELSE {})
                                \cup (IF lastUser[name] = "out"
                                      THEN {"afterSignOut"} ELSE {}),
                arg |-> <<>>, threw |-> Null]

AuthStateChanged(name, user, openFails) ==
    /\ authListeners[name] > 0
    /\ IF user THEN SignedIn(name, openFails)
       ELSE openFails = FALSE /\ SignedOut(name)
    /\ lastUser' = [lastUser EXCEPT ![name] = IF user THEN "in" ELSE "out"]
    /\ UNCHANGED <<apps, captured, authListeners, requested>>

\* what the cells of a record held before a data event
BeforeTags(name) ==
    (IF collectionsState[name].error \in StreamErrors THEN {"wasErrored"} ELSE {})
    \cup (IF collectionsState[name].error = AuthenticationRequired
          THEN {"wasUnauthenticated"} ELSE {})
    \cup (IF collectionsState[name].data # <<>> THEN {"hadData"} ELSE {})

\* mutant: the success handler does not clear the error
OnSnapshot_KeepsError(name, k, docs) ==
    /\ k \in ActiveListeners(name)
    /\ collectionsState' =
           [collectionsState EXCEPT
               ![name].data = MapDocs(docs), ![name].loading = FALSE]
    /\ last' = [op |-> "snapshot", name |-> name, tag |-> BeforeTags(name),
                arg |-> docs, threw |-> Null]
    /\ lastStream' = [lastStream EXCEPT ![name] = "snapshot"]
    /\ UNCHANGED <<apps, unsubscribeSnapshot, captured, authListeners,
                   snapshotListeners, requested, lastUser, lastOpen>>

\* mutant: the snapshot is appended to the documents already held
OnSnapshot_Merge(name, k, docs) ==
    /\ k \in ActiveListeners(name)
    /\ collectionsState' =
           [collectionsState EXCEPT
               ![name].data = collectionsState[name].data \o MapDocs(docs),
               ![name].loading = FALSE, ![name].error = Null]
    /\ last' = [op |-> "snapshot", name |-> name, tag |-> BeforeTags(name),
                arg |-> docs, threw |-> Null]
    /\ lastStream' = [lastStream EXCEPT ![name] = "snapshot"]
    /\ UNCHANGED <<apps, unsubscribeSnapshot, captured, authListeners,
                   snapshotListeners, requested, lastUser, lastOpen>>

\* mutant: the cells are created once at module level and shared by all records
OnSnapshot_SharedCells(name, k, docs) ==
    /\ k \in ActiveListeners(name)
    /\ collectionsState' =
           [n \in DOMAIN collectionsState |->
               IF collectionsState[n].defined
               THEN [collectionsState[n] EXCEPT
                        !.data = MapDocs(docs), !.loading = FALSE,
                        !.error = Null]
               ELSE collectionsState[n]]
    /\ last' = [op |-> "snapshot", name |-> name, tag |-> BeforeTags(name),
                arg |-> docs, threw |-> Null]
    /\ lastStream' = [lastStream EXCEPT ![name] = "snapshot"]
    /\ UNCHANGED <<apps, unsubscribeSnapshot, captured, authListeners,
                   snapshotListeners, requested, lastUser, lastOpen>>

(* The success handler of data listener k of `name`, called with a snapshot. *)
OnSnapshot(name, k, docs) ==
    /\ k \in ActiveListeners(name)
    /\ collectionsState' =
           [collectionsState EXCEPT
               ![name].data = MapDocs(docs), ![name].loading = FALSE,
               ![name].error = Null]
    /\ last' = [op |-> "snapshot", name |-> name, tag |-> BeforeTags(name),
                arg |-> docs, threw |-> Null]
    /\ lastStream' = [lastStream EXCEPT ![name] = "snapshot"]
    /\ UNCHANGED <<apps, unsubscribeSnapshot, captured, authListeners,
                   snapshotListeners, requested, lastUser, lastOpen>>

\* mutant: a stream failure also clears the documents
OnSnapshotError_ClearsData(name, k, err) ==
    /\ k \in ActiveListeners(name)
    /\ collectionsState' =
           [collectionsState EXCEPT ![name].error = err, ![name].loading = FALSE,
                                    ![name].data = <<>>]
    /\ last' = [op |-> "streamError", name |-> name, tag |-> BeforeTags(name),
                arg |-> <<err>>, threw |-> Null]
    /\ lastStream' = [lastStream EXCEPT ![name] = "failed"]
    /\ UNCHANGED <<apps, unsubscribeSnapshot, captured, authListeners,
                   snapshotListeners, requested, lastUser, lastOpen>>

(* The error handler of data listener k of `name`. *)
OnSnapshotError(name, k, err) ==
    /\ k \in ActiveListeners(name)
    /\ collectionsState' =
           [collectionsState EXCEPT ![name].error = err, ![name].loading = FALSE]
    /\ last' = [op |-> "streamError", name |-> name, tag |-> BeforeTags(name),
                arg |-> <<err>>, threw |-> Null]
    /\ lastStream' = [lastStream EXCEPT ![name] = "failed"]
    /\ UNCHANGED <<apps, unsubscribeSnapshot, captured, authListeners,
                   snapshotListeners, requested, lastUser, lastOpen>>

Use ==
    \E names \in NameLists, c \in ContextArgs :
        useFirestoreCollections(names, c[1], c[2], c[3])

Auth ==
    \E n \in Names, user \in BOOLEAN, openFails \in BOOLEAN :
        AuthStateChanged(n, user, openFails)

SnapshotEvent ==
    \E n \in Names, k \in 1..MaxOpens, docs \in Snapshots : OnSnapshot(n, k, docs)

ErrorEvent ==
    \E n \in Names, k \in 1..MaxOpens, err \in StreamErrors : OnSnapshotError(n, k, err)

Next == Use \/ Auth \/ SnapshotEvent \/ ErrorEvent

Spec == Init /\ [][Next]_vars

-----------------------------------------------------------------------------
(* Properties *)

Defined(n) == collectionsState[n] # NoRecord
Opened(n) == Len(snapshotListeners[n])
Cancelled(n) == {k \in 1..Len(snapshotListeners[n]) : snapshotListeners[n][k] > 0}
LastIs(op, n) == last.op = op /\ last.name = n

\* C1: every collection name that has been requested (subscribeToCollection has
\* returned for it), however often and also when repeated inside one names
\* list, has exactly one authentication listener and at most one data listener
\* that is active.
C1_OneListenerPair ==
    \A n \in requested :
        authListeners[n] = 1 /\ Cardinality(ActiveListeners(n)) <= 1

\* a call repeated a name inside its list and named a record that existed, and
\* the record, on its second data listener, still has one listener pair
C1_Witness ==
    /\ last.op = "use"
    /\ {"reused", "repeated"} \subseteq last.tag
    /\ \E n \in requested :
          /\ authListeners[n] = 1
          /\ Opened(n) = 2
          /\ Cardinality(ActiveListeners(n)) = 1

\* C2 as stated: the data listener handle is present if and only if the last
\* authentication callback of the record reported a signed-in principal.
C2_HandleIffSignedIn ==
    \A n \in Names :
        Defined(n) => (unsubscribeSnapshot[n] # 0 <=> lastUser[n] = "in")

\* C2 amended: the handle is present if and only if the last authentication
\* callback reported a signed-in principal and the record's latest attempt to
\* open the data stream did not fail synchronously.
C2_HandleIffSignedInAndOpened ==
    \A n \in Names :
        Defined(n) =>
            (unsubscribeSnapshot[n] # 0 <=> (lastUser[n] = "in" /\ lastOpen[n] = "ok"))

\* one record signed in with its stream open, the other signed in after its
\* stream failed to open
C2_Witness ==
    \E n, m \in Names :
        /\ lastUser[n] = "in" /\ lastOpen[n] = "ok" /\ unsubscribeSnapshot[n] # 0
        /\ lastUser[m] = "in" /\ lastOpen[m] = "threw" /\ unsubscribeSnapshot[m] = 0
        /\ Opened(m) = 1

\* C3: after a sign-out callback that found a data listener active, the record
\* has data = [], error = AuthenticationRequired, loading = false and no handle,
\* and the cancel function of that listener (as of every earlier one) has been
\* invoked exactly once.
C3_SignOutCancelsOnce ==
    \A n \in Names :
        (LastIs("auth", n) /\ {"out", "cancelled"} \subseteq last.tag) =>
            /\ collectionsState[n].data = <<>>
            /\ collectionsState[n].error = AuthenticationRequired
            /\ collectionsState[n].loading = FALSE
            /\ unsubscribeSnapshot[n] = 0
            /\ Opened(n) > 0
            /\ \A k \in 1..Opened(n) : snapshotListeners[n][k] = 1

\* the second data listener of a record was cancelled by a sign-out
C3_Witness ==
    \E n \in Names :
        /\ LastIs("auth", n) /\ {"out", "cancelled"} \subseteq last.tag
        /\ Opened(n) = 2

\* C4: after a snapshot event the record's data is the mapped document list of
\* that snapshot, same length and order and nothing else, loading is false and
\* error is null, whatever data and error were before.
C4_SnapshotReplaces ==
    \A n \in Names :
        LastIs("snapshot", n) =>
            /\ Len(collectionsState[n].data) = Len(last.arg)
            /\ \A i \in 1..Len(last.arg) :
                  collectionsState[n].data[i] = MapDoc(last.arg[i])
            /\ collectionsState[n].loading = FALSE
            /\ collectionsState[n].error = Null

\* a two-document snapshot arrived at a record that held documents and an error
C4_Witness ==
    \E n \in Names :
        /\ LastIs("snapshot", n)
        /\ {"hadData", "wasErrored"} \subseteq last.tag
        /\ Len(last.arg) = 2

C6_NoContextFails ==
    (last.op = "use" /\ "noContext" \in last.tag) => last.threw = NoBackendInitialized

\* C6 amended: such a call fails with NoBackendInitialized when its list holds
\* a name that has no record yet, and the failing call attaches no auth
\* listener, opens no data listener and creates no record; a call whose names
\* all have records (or whose list is empty) returns normally.
C6_NoContextFailsOnFreshName ==
    [][ (last'.op = "use" /\ "noContext" \in last'.tag) =>
            /\ last'.threw = NoBackendInitialized <=> "fresh" \in last'.tag
            /\ last'.threw = NoBackendInitialized =>
                  UNCHANGED <<collectionsState, authListeners, snapshotListeners,
                              unsubscribeSnapshot, captured>> ]_vars

\* a call without any context failed on a fresh name that came after a name
\* with a record
C6_Witness ==
    /\ last.op = "use"
    /\ {"noContext", "fresh", "reused"} \subseteq last.tag
    /\ last.threw = NoBackendInitialized
    /\ \E n \in Names : ~Defined(n)

\* C7: a synchronous failure while opening the data stream is not thrown out of
\* the auth callback; it is stored in the record's error field and loading is
\* set to false.
C7_OpenFailureSurfaced ==
    \A n \in Names :
        (LastIs("auth", n) /\ "openFailed" \in last.tag) =>
            /\ last.threw = Null
            /\ collectionsState[n].error \notin {Null, AuthenticationRequired}
            /\ collectionsState[n].loading = FALSE

\* C8 as stated: no record has error non-null together with a non-empty data
\* or an active data listener.
C8_ErrorExcludesDataAndListener ==
    \A n \in Names :
        Defined(n) =>
            ~(/\ collectionsState[n].error # Null
              /\ (collectionsState[n].data # <<>> \/ unsubscribeSnapshot[n] # 0))

\* C8 amended: a record has error non-null together with a non-empty data or an
\* active data listener only when the error is a stream failure delivered by
\* the active listener (loading = false), or when the error is
\* AuthenticationRequired and the listener opened by the sign-in after a
\* sign-out has not delivered yet (data = [], loading = true).
C8_ErrorWithDataOnlyWhenErroredOrRefetching ==
    \A n \in Names :
        (/\ Defined(n)
         /\ collectionsState[n].error # Null
         /\ (collectionsState[n].data # <<>> \/ unsubscribeSnapshot[n] # 0)) =>
            \/ /\ collectionsState[n].error \in StreamErrors
               /\ unsubscribeSnapshot[n] # 0
               /\ collectionsState[n].loading = FALSE
            \/ /\ collectionsState[n].error = AuthenticationRequired
               /\ unsubscribeSnapshot[n] # 0
               /\ collectionsState[n].data = <<>>
               /\ collectionsState[n].loading = TRUE
               /\ lastUser[n] = "in"

\* a stream failure left the documents of a live record in place
C8_Witness ==
    \E n \in Names :
        /\ LastIs("streamError", n)
        /\ collectionsState[n].error \in StreamErrors
        /\ collectionsState[n].data # <<>>
        /\ unsubscribeSnapshot[n] # 0

\* C9: a stream failure event sets error to the failure value and loading to
\* false and leaves data and the data listener handle (and the listeners)
\* unchanged; a snapshot event sets error to null.
C9_StreamErrorFrame ==
    [][ /\ \A n \in Names :
              (last'.op = "streamError" /\ last'.name = n) =>
                  /\ collectionsState'[n].error = last'.arg[1]
                  /\ collectionsState'[n].error \in StreamErrors
                  /\ collectionsState'[n].loading = FALSE
                  /\ collectionsState'[n].data = collectionsState[n].data
                  /\ unsubscribeSnapshot' = unsubscribeSnapshot
                  /\ snapshotListeners' = snapshotListeners
        /\ \A n \in Names :
              (last'.op = "snapshot" /\ last'.name = n) =>
                  collectionsState'[n].error = Null ]_vars

\* a snapshot cleared the stream failure of a record that had kept its documents
C9_Witness ==
    \E n \in Names :
        /\ LastIs("snapshot", n)
        /\ {"wasErrored", "hadData"} \subseteq last.tag
        /\ collectionsState[n].error = Null
        /\ unsubscribeSnapshot[n] # 0

\* C10: a call leaves every record that existed before it unchanged: its data,
\* loading, error, data listener handle, listeners and captured contexts, also
\* when the call brings other contexts than the record's.
C10_ExistingRecordUntouched ==
    [][ last'.op = "use" =>
            \A n \in Names :
                Defined(n) =>
                    /\ collectionsState'[n] = collectionsState[n]
                    /\ unsubscribeSnapshot'[n] = unsubscribeSnapshot[n]
                    /\ authListeners'[n] = authListeners[n]
                    /\ snapshotListeners'[n] = snapshotListeners[n]
                    /\ captured'[n] = captured[n] ]_vars

\* a call with other contexts named a record; every record is live with documents
C10_Witness ==
    /\ last.op = "use"
    /\ {"reused", "otherContext"} \subseteq last.tag
    /\ last.threw = Null
    /\ \A n \in Names :
          /\ collectionsState[n].data # <<>>
          /\ collectionsState[n].loading = FALSE
          /\ unsubscribeSnapshot[n] # 0

\* the cells the registry holds for a name now
CellsNow(n) == RecordCells([authListeners |-> authListeners], n)

\* C11: in every reachable state, a call that returns gives a mapping whose
\* keys are exactly the names asked for, each to the data, loading and error
\* cells of the registry record; for a name that had a record before the call
\* these are the cells the registry held already (the ones every earlier
\* result for the name holds), so all holders observe the same values.
C11_ResultSharesRecordCells ==
    \A names \in NameLists, c \in ContextArgs :
        LET st == Subscribed(names, c[1], c[2], c[3])
            result == Returned(names, c[1], c[2], c[3])
        IN  st.threw = Null =>
                /\ DOMAIN result = Range(names)
                /\ \A n \in Range(names) :
                      /\ st.collectionsState[n] # NoRecord
                      /\ result[n] = RecordCells(st, n)
                      /\ Defined(n) => result[n] = CellsNow(n)

\* a call has just named records created earlier; both records have received
\* documents since, and a further call for both names returns their cells
C11_Witness ==
    /\ last.op = "use" /\ last.threw = Null
    /\ "reused" \in last.tag /\ "fresh" \notin last.tag
    /\ \A n \in Names : Defined(n) /\ collectionsState[n].data # <<>>
    /\ LET result == Returned(<<"users", "posts">>, Null, NoInstance, NoInstance)
       IN  DOMAIN result = Names /\ \A n \in Names : result[n] = CellsNow(n)

\* C12 as stated: error is non-null only if the last authentication callback
\* reported no signed-in principal or the record's most recent data-stream
\* operation failed (so it is null while signed in with a freshly opened stream).
C12_ErrorOnlyIfSignedOutOrFailed ==
    \A n \in Names :
        (Defined(n) /\ collectionsState[n].error # Null) =>
            lastUser[n] = "out" \/ lastStream[n] \in {"threw", "failed"}

\* C12 amended: error is non-null only if the last authentication callback
\* reported no signed-in principal, or the most recent data-stream operation
\* failed, or the error is the AuthenticationRequired of an earlier sign-out
\* and the stream opened since has delivered nothing yet.
C12_ErrorOnlyIfSignedOutFailedOrRefetching ==
    \A n \in Names :
        (Defined(n) /\ collectionsState[n].error # Null) =>
            \/ lastUser[n] = "out"
            \/ lastStream[n] \in {"threw", "failed"}
            \/ /\ collectionsState[n].error = AuthenticationRequired
               /\ lastStream[n] = "opened"
               /\ collectionsState[n].loading = TRUE

\* signed in again after a sign-out: the stream is open and has not failed, and
\* error still is AuthenticationRequired
C12_Witness ==
    \E n \in Names :
        /\ lastUser[n] = "in" /\ lastStream[n] = "opened"
        /\ unsubscribeSnapshot[n] # 0
        /\ collectionsState[n].error = AuthenticationRequired

\* C13: loading is true exactly when a fetch is outstanding: no authentication
\* callback has fired yet for the record, or a data listener is active and has
\* delivered neither a snapshot nor a failure since it was opened.
C13_LoadingIffFetchOutstanding ==
    \A n \in Names :
        Defined(n) =>
            (collectionsState[n].loading = TRUE <=>
                \/ lastUser[n] = "none"
                \/ unsubscribeSnapshot[n] # 0 /\ lastStream[n] = "opened")

\* the step just taken is an authentication callback of record n
AuthStep(n, user) ==
    /\ last'.op = "auth" /\ last'.name = n
    /\ (IF user THEN "in" ELSE "out") \in last'.tag

\* C14: a signed-in callback that finds the data listener of its record active
\* does nothing: it opens no listener and leaves data, loading, error and the
\* handle as they were (loading stays false on a record that has documents or
\* a stream error).
C14_SignedInWhileActiveIsNoOp ==
    [][\A n \in Names :
        (AuthStep(n, TRUE) /\ unsubscribeSnapshot[n] # 0) =>
            /\ collectionsState'[n] = collectionsState[n]
            /\ unsubscribeSnapshot'[n] = unsubscribeSnapshot[n]
            /\ snapshotListeners'[n] = snapshotListeners[n]]_vars

\* a signed-in callback has just found the listener active on a record that
\* holds documents and is not loading
C14_Witness ==
    /\ last.op = "auth" /\ "alreadyActive" \in last.tag
    /\ collectionsState[last.name].data # <<>>
    /\ collectionsState[last.name].loading = FALSE
    /\ unsubscribeSnapshot[last.name] # 0

\* C15: a sign-out callback that finds no active data listener invokes no
\* cancel function and does not throw; it still leaves data empty, error =
\* AuthenticationRequired and loading false; and a sign-out that follows a
\* sign-out leaves the record as the first one left it.
C15_SignOutWithoutListener ==
    [][\A n \in Names :
        (AuthStep(n, FALSE) /\ unsubscribeSnapshot[n] = 0) =>
            /\ snapshotListeners'[n] = snapshotListeners[n]
            /\ last'.threw = Null
            /\ unsubscribeSnapshot'[n] = 0
            /\ collectionsState'[n] =
                   [defined |-> TRUE, data |-> <<>>, loading |-> FALSE,
                    error |-> AuthenticationRequired]
            /\ (lastUser[n] = "out" =>
                   collectionsState'[n] = collectionsState[n])]_vars

\* a sign-out callback has just followed another sign-out callback of a record
\* whose listener the first one cancelled
C15_Witness ==
    /\ last.op = "auth" /\ last.tag = {"out", "afterSignOut"}
    /\ Opened(last.name) > 0
    /\ Cardinality(Cancelled(last.name)) = Opened(last.name)
    /\ collectionsState[last.name].error = AuthenticationRequired

\* C16: from the request that creates it until its first authentication
\* callback a record has data = [], loading = true, error = null and no data
\* listener; so the first call for a fresh name returns these three values.
C16_FreshRecordIsLoading ==
    \A n \in Names :
        (Defined(n) /\ lastUser[n] = "none") =>
            /\ collectionsState[n] =
                   [defined |-> TRUE, data |-> <<>>, loading |-> TRUE,
                    error |-> Null]
            /\ unsubscribeSnapshot[n] = 0
            /\ Opened(n) = 0

\* a record still waits for its first authentication callback after a later
\* call has asked for it again and another record has received documents
C16_Witness ==
    \E n, m \in Names :
        /\ Defined(n) /\ lastUser[n] = "none"
        /\ last.op = "use" /\ "reused" \in last.tag /\ n \in requested
        /\ Defined(m) /\ collectionsState[m].data # <<>>

\* C17: data events come only from listeners whose cancel function was not
\* invoked.  In every state whose last authentication callback was a sign-out
\* the record has data = [], error = AuthenticationRequired, loading = false
\* and no active data listener; and the AuthenticationRequired error becomes
\* null only by a snapshot that is the first event of the stream opened by
\* the next signed-in callback.
C17_SignedOutUntilNextSnapshot ==
    [][\A n \in Names :
        /\ lastUser'[n] = "out" =>
               /\ collectionsState'[n] =
                      [defined |-> TRUE, data |-> <<>>, loading |-> FALSE,
                       error |-> AuthenticationRequired]
               /\ unsubscribeSnapshot'[n] = 0
               /\ \A k \in 1..Len(snapshotListeners'[n]) :
                      snapshotListeners'[n][k] > 0
        /\ (/\ collectionsState[n].error = AuthenticationRequired
            /\ collectionsState'[n].error = Null) =>
               /\ last'.op = "snapshot" /\ last'.name = n
               /\ lastUser[n] = "in" /\ lastStream[n] = "opened"]_vars

\* the first snapshot after a sign-out and the sign-in that followed it has
\* just replaced AuthenticationRequired by null
C17_Witness ==
    /\ last.op = "snapshot" /\ "wasUnauthenticated" \in last.tag
    /\ lastUser[last.name] = "in"
    /\ Cancelled(last.name) # {}
    /\ collectionsState[last.name].error = Null

\* C18: an authentication callback, a snapshot or a stream failure of the
\* record of one name leaves the record, the handle and the listeners of every
\* other name unchanged.
C18_CallbacksTouchOwnRecordOnly ==
    [][\A n, m \in Names :
        (/\ n # m
         /\ last'.op \in {"auth", "snapshot", "streamError"}
         /\ last'.name = n) =>
            /\ collectionsState'[m] = collectionsState[m]
            /\ unsubscribeSnapshot'[m] = unsubscribeSnapshot[m]
            /\ snapshotListeners'[m] = snapshotListeners[m]
            /\ authListeners'[m] = authListeners[m]
            /\ captured'[m] = captured[m]]_vars

\* a snapshot has just been delivered to one record while another record holds
\* other documents and an active listener of its own
C18_Witness ==
    \E m \in Names :
        /\ last.op = "snapshot" /\ m # last.name
        /\ collectionsState[m].data # <<>>
        /\ collectionsState[m].data # collectionsState[last.name].data
        /\ unsubscribeSnapshot[m] # 0

\* C19: after a snapshot, data[i].id is the identifier of the snapshot's i-th
\* document and data[i] carries every field of that document's field map (a
\* field named id gives way to the identifier), for every field map, also one
\* that has a field named id.
C19_IdIsDocumentId ==
    last.op = "snapshot" =>
        LET data == collectionsState[last.name].data
            docs == last.arg
        IN  /\ Len(data) = Len(docs)
            /\ \A i \in 1..Len(docs) :
                   /\ data[i].id = docs[i].id
                   /\ \A f \in DOMAIN docs[i].data \ {"id"} :
                          /\ f \in DOMAIN data[i]
                          /\ data[i][f] = docs[i].data[f]

====
